---- MODULE Spec2Model ----
(***************************************************************************)
(* A model of feets/extractors.py: the extractor metaclass (definition-    *)
(* time validation), the process-wide extractor registry, and the          *)
(* Extractor.extract invocation protocol.                                  *)
(*                                                                         *)
(* Python objects are modelled by values:                                  *)
(*   - a string is a TLA+ string; an object that is not a string is one    *)
(*     of the tokens of NonStrings;                                        *)
(*   - a class body (the namespace handed to ExtractorMeta.__new__) is a   *)
(*     record: attrs is the set of attributes the body defines, fit says   *)
(*     whether the body overrides Extractor.fit;                           *)
(*   - a class object is [kind |-> "class", _conf |-> ExtractorConf];      *)
(*   - an exception is the name of its type, "none" when nothing is raised.*)
(***************************************************************************)
EXTENDS Integers, Sequences, FiniteSets, TLC

VARIABLES
    _extractors,   \* the registry: feature name -> class object (line 96)
    cls,           \* the class object the last class statement produced
    last,          \* the last definition/registration call: op, argument, raised
    hashOrder,     \* the process's string-hash order: iteration order of sets
    self,          \* the Extractor instance in use
    call,          \* the last call of Extractor.extract: inputs and outcome
    sal,           \* a run of SlottedA_length.fit: its locals and its result
    sfn            \* a run of StructureFunctions.fit: its locals

vars == <<_extractors, cls, last, hashOrder, self, call, sal, sfn>>

(***************************************************************************)
(* Bounds and input universes                                              *)
(***************************************************************************)
\* longest data / features / params sequence a class body declares
MaxLen == 2

\* objects that are not strings (isinstance(x, six.string_types) is False)
NonStrings == {"#7"}

\* names a class body may list under data: a catalog name and a foreign one
DataNames == {"magnitude", "flux"}
\* names a class body may list under features: two proper feature names,
\* a channel name and a non-string
FeatureNames == {"f1", "f2", "time", "#7"}
\* names a class body may list under dependencies
DepNames == {"f1", "f2", "#7"}
\* keys a class body may use in params: a proper one, a channel name, a non-string
ParamNames == {"f1", "time", "#7"}
\* default values of parameters
ParamDefaults == {"dflt"}

SeqsUpTo(S, n) == UNION {[1..k -> S] : k \in 0..n}
Range(s) == {s[i] : i \in DOMAIN s}
Count(s, x) == Cardinality({i \in DOMAIN s : s[i] = x})
NoDup(s) == \A i, j \in DOMAIN s : s[i] = s[j] => i = j
\* index of the first element of s that satisfies P, 0 when there is none
FirstIdx(s, P(_)) ==
    IF \E i \in DOMAIN s : P(s[i])
    THEN CHOOSE i \in DOMAIN s : P(s[i]) /\ \A j \in 1..(i - 1) : ~P(s[j])
    ELSE 0

(***************************************************************************)
(* CONSTANTS of the source (lines 66-89)                                   *)
(***************************************************************************)
DATAS == <<"magnitude", "time", "error", "magnitude2", "aligned_magnitude",
           "aligned_magnitude2", "aligned_time", "aligned_error",
           "aligned_error2">>

\* DATA_IDXS: channel name -> 0-based slot of the per-object data array
DATA_IDXS == [d \in Range(DATAS) |-> (CHOOSE i \in DOMAIN DATAS : DATAS[i] = d) - 1]

IsString(x) == x \notin NonStrings

\* `raise ExtractorError(...)`: the module never defines or imports the name
\* ExtractorError (only `err` is imported), so evaluating it raises NameError
ExtractorError == "NameError"

(***************************************************************************)
(* Class bodies                                                            *)
(***************************************************************************)
BlankBody == [attrs |-> {}, data |-> <<>>, features |-> <<>>, fit |-> FALSE,
              dependencies |-> {}, params |-> <<>>]

NoConf == [data |-> {}, dependencies |-> {}, params |-> <<>>, features |-> {}]
NoClass == [kind |-> "none", _conf |-> NoConf]
\* the base class Extractor: the metaclass returns it before building _conf
ExtractorBase == [kind |-> "base", _conf |-> NoConf]
\* an object that is not a class
NotAClass == [kind |-> "object", _conf |-> NoConf]

(***************************************************************************)
(* ExtractorMeta.__new__ (lines 144-215): the checks, in source order.     *)
(* Each returns the exception it raises, "none" when it passes.            *)
(***************************************************************************)
\* lines 154-166: the data attribute
DataErr(ns) ==
    IF "data" \notin ns.attrs THEN ExtractorError
    ELSE IF ns.data = <<>> THEN ExtractorError
    ELSE IF \E i \in DOMAIN ns.data : ns.data[i] \notin Range(DATAS)
         THEN ExtractorError
    ELSE IF Cardinality(Range(ns.data)) # Len(ns.data) THEN ExtractorError
    ELSE "none"

\* lines 168-184: the features attribute
FeaturesErr(ns) ==
    LET Bad(f) == ~IsString(f) \/ f \in Range(DATAS)
        i == FirstIdx(ns.features, Bad)
    IN  IF "features" \notin ns.attrs THEN ExtractorError
        ELSE IF ns.features = <<>> THEN ExtractorError
        ELSE IF i # 0
             THEN IF ~IsString(ns.features[i]) THEN "TypeError"
                  ELSE "DataReservedNameError"
        ELSE IF Cardinality(Range(ns.features)) # Len(ns.features)
             THEN ExtractorError
        ELSE "none"

\* lines 186-188: fit must differ from Extractor.fit
FitErr(ns) == IF ~ns.fit THEN ExtractorError ELSE "none"

\* lines 190-191: a missing dependencies attribute becomes ()
Dependencies(ns) ==
    IF "dependencies" \in ns.attrs THEN ns.dependencies ELSE {}

\* lines 192-195
DepsErr(ns) ==
    IF \E d \in Dependencies(ns) : ~IsString(d) THEN "TypeError" ELSE "none"

\* lines 197-198: a missing params attribute becomes {}; params is the
\* sequence of the dict's items <<name, default>> in insertion order
Params(ns) == IF "params" \in ns.attrs THEN ns.params ELSE <<>>

\* a faulty variant of ParamsErr: the reserved-name check is dropped
ParamsErr_NoReserved(ns) ==
    IF \E i \in DOMAIN Params(ns) : ~IsString(Params(ns)[i][1])
    THEN "TypeError" ELSE "none"

\* lines 199-205
ParamsErr(ns) ==
    LET Bad(item) == ~IsString(item[1]) \/ item[1] \in Range(DATAS)
        i == FirstIdx(Params(ns), Bad)
    IN  IF i = 0 THEN "none"
        ELSE IF ~IsString(Params(ns)[i][1]) THEN "TypeError"
        ELSE "DataReservedNameError"

\* lines 207-211: the descriptor; frozenset() keeps the members only
ExtractorConf(ns) ==
    [data |-> Range(ns.data),
     dependencies |-> Dependencies(ns),
     params |-> Params(ns),
     features |-> Range(ns.features)]

\* lines 146-215: the first failing check raises; otherwise the class
\* object with its _conf is returned
ExtractorMeta_new(ns) ==
    LET errs == <<DataErr(ns), FeaturesErr(ns), FitErr(ns), DepsErr(ns),
                  ParamsErr(ns)>>
        Raises(e) == e # "none"
        i == FirstIdx(errs, Raises)
    IN  IF i # 0 THEN [raised |-> errs[i], cls |-> NoClass]
        ELSE [raised |-> "none",
              cls |-> [kind |-> "class", _conf |-> ExtractorConf(ns)]]

(***************************************************************************)
(* The class bodies the model defines. __new__ reads the attributes in     *)
(* the order data, features, fit, dependencies, params and stops at the    *)
(* first failed check, so attributes behind a failed check are left blank. *)
(***************************************************************************)
ParamItemSeqs ==
    {s \in SeqsUpTo(ParamNames \X ParamDefaults, MaxLen) :
        \A i, j \in DOMAIN s : s[i][1] = s[j][1] => i = j}

Bodies1 ==
    {BlankBody} \cup
    {[BlankBody EXCEPT !.attrs = {"data"}, !.data = s] :
        s \in SeqsUpTo(DataNames, MaxLen)}

Bodies2 ==
    UNION {IF DataErr(b) # "none" THEN {b}
           ELSE {b} \cup {[b EXCEPT !.attrs = @ \cup {"features"}, !.features = s] :
                            s \in SeqsUpTo(FeatureNames, MaxLen)} : b \in Bodies1}

Bodies3 ==
    UNION {IF DataErr(b) # "none" \/ FeaturesErr(b) # "none" THEN {b}
           ELSE {b, [b EXCEPT !.fit = TRUE]} : b \in Bodies2}

Bodies4 ==
    UNION {IF DataErr(b) # "none" \/ FeaturesErr(b) # "none" \/ FitErr(b) # "none"
           THEN {b}
           ELSE {b} \cup {[b EXCEPT !.attrs = @ \cup {"dependencies"},
                                    !.dependencies = S] : S \in SUBSET DepNames} :
           b \in Bodies3}

ClassBodies ==
    UNION {IF DataErr(b) # "none" \/ FeaturesErr(b) # "none" \/ FitErr(b) # "none"
              \/ DepsErr(b) # "none"
           THEN {b}
           ELSE {b} \cup {[b EXCEPT !.attrs = @ \cup {"params"}, !.params = s] :
                            s \in ParamItemSeqs} : b \in Bodies4}

(***************************************************************************)
(* REGISTER UTILITY (lines 96-132)                                         *)
(***************************************************************************)
\* a faulty variant of RegistryUpdate: a name already in the registry keeps
\* its owner (setdefault instead of update)
RegistryUpdate_KeepOld(reg, obj) ==
    [f \in DOMAIN reg \cup obj._conf.features |->
        IF f \in DOMAIN reg THEN reg[f] ELSE obj]

\* line 108: _extractors.update((f, cls) for f in cls._conf.features)
RegistryUpdate(reg, obj) ==
    [f \in DOMAIN reg \cup obj._conf.features |->
        IF f \in obj._conf.features THEN obj ELSE reg[f]]

\* a faulty variant of register_extractor: the features are inserted before
\* the dependencies are checked
register_extractor_UpdateFirst(reg, obj) ==
    IF obj.kind \notin {"class", "base"}
    THEN [raised |-> "TypeError", reg |-> reg]
    ELSE IF obj.kind = "base"
    THEN [raised |-> "AttributeError", reg |-> reg]
    ELSE IF \E d \in obj._conf.dependencies : d \notin DOMAIN reg
    THEN [raised |-> "FeatureNotFound", reg |-> RegistryUpdate(reg, obj)]
    ELSE [raised |-> "none", reg |-> RegistryUpdate(reg, obj)]

\* a faulty variant of register_extractor: the dependency check is missing
register_extractor_NoDepCheck(reg, obj) ==
    IF obj.kind \notin {"class", "base"}
    THEN [raised |-> "TypeError", reg |-> reg]
    ELSE IF obj.kind = "base"
    THEN [raised |-> "AttributeError", reg |-> reg]
    ELSE [raised |-> "none", reg |-> RegistryUpdate(reg, obj)]

\* lines 99-109: the exception raised and the registry left behind
register_extractor(reg, obj) ==
    IF obj.kind \notin {"class", "base"}
    THEN [raised |-> "TypeError", reg |-> reg]
    ELSE IF obj.kind = "base"
    THEN [raised |-> "AttributeError", reg |-> reg]
    ELSE IF \E d \in obj._conf.dependencies : d \notin DOMAIN reg
    THEN [raised |-> "FeatureNotFound", reg |-> reg]
    ELSE [raised |-> "none", reg |-> RegistryUpdate(reg, obj)]

\* a faulty variant of extractor_of: a missing name yields a default
\* (_extractors.get(feature)) instead of an error
extractor_of_Get(reg, feature) ==
    IF feature \in DOMAIN reg
    THEN [raised |-> "none", ret |-> reg[feature]]
    ELSE [raised |-> "none", ret |-> NoClass]

\* lines 131-132: _extractors[feature]; a dict raises KeyError for a
\* missing key
extractor_of(reg, feature) ==
    IF feature \in DOMAIN reg
    THEN [raised |-> "none", ret |-> reg[feature]]
    ELSE [raised |-> "KeyError", ret |-> NoClass]

\* the Extractor subclasses that can exist: what ExtractorMeta.__new__
\* returns for the class bodies it accepts
ValidClasses == {ExtractorMeta_new(ns).cls : ns \in ClassBodies} \ {NoClass}

(***************************************************************************)
(* Extractor.__init__ and Extractor.extract (lines 221-266)                *)
(***************************************************************************)
\* number of distinct values a computation routine returns
NumValues == 2
\* longest sequence a computation routine returns
MaxRet == 2

\* names the space may hold an override for
SpaceKeys == {"f1", "zz"}
\* space.params_by_features(...): a dict name -> overriding value
Spaces == UNION {[S -> {"ovr"}] : S \in SUBSET SpaceKeys}

\* a faulty variant of Extractor_init: the space's overrides are not read
Extractor_init_DefaultsOnly(c, ns) ==
    LET items == c._conf.params
        names == {items[i][1] : i \in DOMAIN items}
        dflt(p) == (CHOOSE i \in DOMAIN items : items[i][1] = p)
    IN  [cls |-> c, space |-> ns,
         params |-> [p \in names |-> items[dflt(p)][2]]]

\* lines 221-227: the resolved parameters; space stands for what
\* space.params_by_features(features) returns
Extractor_init(c, ns) ==
    LET items == c._conf.params
        names == {items[i][1] : i \in DOMAIN items}
        dflt(p) == (CHOOSE i \in DOMAIN items : items[i][1] = p)
    IN  [cls |-> c, space |-> ns,
         params |-> [p \in names |->
                        IF p \in DOMAIN ns THEN ns[p] ELSE items[dflt(p)][2]]]

NoInstance == [cls |-> NoClass, space |-> <<>>, params |-> <<>>]

\* the members of S in some fixed order
RECURSIVE SetToSeq(_)
SetToSeq(S) ==
    IF S = {} THEN <<>>
    ELSE LET x == CHOOSE y \in S : TRUE IN <<x>> \o SetToSeq(S \ {x})

\* iteration order of a frozenset of strings: decided by the process's
\* string hashing, not by the order the members were written in
IterOrder(S) ==
    LET In(x) == x \in S
    IN  SelectSeq(hashOrder, In) \o SetToSeq(S \ Range(hashOrder))

Min(a, b) == IF a < b THEN a ELSE b

\* dict(zip(keys, vals)): pairs up to the shorter of the two
DictZip(keys, vals) ==
    LET n == Min(Len(keys), Len(vals))
    IN  [k \in {keys[i] : i \in 1..n} |->
            vals[CHOOSE i \in 1..n : keys[i] = k]]

\* the per-object data arrays handed to extract: all 9 slots, or none
DataArrays == {[i \in 1..n |-> <<"series", i - 1>>] : n \in {0, Len(DATAS)}}
\* the dependency values handed to extract
DepMaps == UNION {[S -> {<<"value">>}] : S \in SUBSET {"f1", "f2"}}
\* what the hooks and the computation routine do in one call
Hooks == {"none", "HookError"}
\* fit raises, returns a scalar (an object without __iter__), or returns a
\* sequence vals
FitOutcomes ==
    {[raised |-> "FitError", iter |-> FALSE, scalar |-> 0, vals |-> <<>>]} \cup
    {[raised |-> "none", iter |-> FALSE, scalar |-> v, vals |-> <<>>] :
        v \in 1..NumValues} \cup
    {[raised |-> "none", iter |-> TRUE, scalar |-> 0, vals |-> s] :
        s \in SeqsUpTo(1..NumValues, MaxRet)}

\* lines 262-263: a result without __iter__ becomes a one-element tuple
AsTuple(fit) == IF ~fit.iter THEN <<fit.scalar>> ELSE fit.vals

NoRet == <<>>

\* lines 254-258: the named arguments
Kwargs(inst, data, dependencies) ==
    LET conf == inst.cls._conf
    IN  [k \in conf.dependencies \cup conf.data \cup DOMAIN inst.params |->
            IF k \in DOMAIN inst.params THEN inst.params[k]
            ELSE IF k \in conf.data THEN data[DATA_IDXS[k] + 1]
            ELSE dependencies[k]]

\* a faulty variant of extract: teardown is called after the try block
\* instead of in a finally clause, so it is skipped when the block raises
extract_NoFinally(inst, data, dependencies, setup, fit, teardown) ==
    LET conf == inst.cls._conf
    IN  IF \E k \in conf.dependencies : k \notin DOMAIN dependencies
        THEN [raised |-> "KeyError", ret |-> NoRet, trace |-> <<>>]
        ELSE IF \E d \in conf.data : DATA_IDXS[d] + 1 \notin DOMAIN data
        THEN [raised |-> "IndexError", ret |-> NoRet, trace |-> <<>>]
        ELSE IF setup # "none"
        THEN [raised |-> setup, ret |-> NoRet, trace |-> <<"setup">>]
        ELSE IF fit.raised # "none"
        THEN [raised |-> fit.raised, ret |-> NoRet,
              trace |-> <<"setup", "fit">>]
        ELSE IF teardown # "none"
        THEN [raised |-> teardown, ret |-> NoRet,
              trace |-> <<"setup", "fit", "teardown">>]
        ELSE [raised |-> "none",
              ret |-> DictZip(IterOrder(conf.features), AsTuple(fit)),
              trace |-> <<"setup", "fit", "teardown">>]

\* lines 253-266. setup, fit and teardown say what the three routines do
\* when called; trace lists the routines called, in order
extract(inst, data, dependencies, setup, fit, teardown) ==
    LET conf == inst.cls._conf
        body ==   \* the try block, lines 260-264
            IF setup # "none"
            THEN [raised |-> setup, ret |-> NoRet, trace |-> <<"setup">>]
            ELSE IF fit.raised # "none"
            THEN [raised |-> fit.raised, ret |-> NoRet,
                  trace |-> <<"setup", "fit">>]
            ELSE [raised |-> "none",
                  ret |-> DictZip(IterOrder(conf.features), AsTuple(fit)),
                  trace |-> <<"setup", "fit">>]
    IN  IF \E k \in conf.dependencies : k \notin DOMAIN dependencies
        THEN [raised |-> "KeyError", ret |-> NoRet, trace |-> <<>>]
        ELSE IF \E d \in conf.data : DATA_IDXS[d] + 1 \notin DOMAIN data
        THEN [raised |-> "IndexError", ret |-> NoRet, trace |-> <<>>]
        ELSE IF teardown # "none"   \* finally: an exception raised here wins
        THEN [raised |-> teardown, ret |-> NoRet,
              trace |-> Append(body.trace, "teardown")]
        ELSE [body EXCEPT !.trace = Append(body.trace, "teardown")]

NoCall == [made |-> FALSE]
\* no run of the routine yet
NoRun == [pc |-> "idle"]

(***************************************************************************)
(* Actions                                                                 *)
(***************************************************************************)
Init ==
    /\ _extractors = <<>>
    /\ cls = NoClass
    /\ last = [op |-> "init", arg |-> NoClass, raised |-> "none"]
    /\ hashOrder \in {<<"f1", "f2">>, <<"f2", "f1">>}
    /\ self = NoInstance
    /\ call = NoCall
    /\ sal = NoRun
    /\ sfn = NoRun

\* a class statement `class X(Extractor): ...` runs ExtractorMeta.__new__.
\* The module's class statements (lines 273-1177) all precede its
\* registration loop (lines 1184-1185) and any instance.
ClassStatement ==
    /\ last.op \in {"init", "class"}
    /\ self = NoInstance
    /\ \E ns \in ClassBodies :
        LET r == ExtractorMeta_new(ns)
        IN  /\ cls' = r.cls
            /\ last' = [op |-> "class", arg |-> ns, raised |-> r.raised]
            /\ UNCHANGED <<_extractors, hashOrder, self, call, sal, sfn>>

\* register_extractor(obj) on an Extractor subclass, on Extractor itself or
\* on an object that is no Extractor subclass
Register ==
    \E obj \in ValidClasses \cup {ExtractorBase, NotAClass} :
        LET r == register_extractor(_extractors, obj)
        IN  /\ _extractors' = r.reg
            /\ last' = [op |-> "register", arg |-> obj, raised |-> r.raised]
            /\ UNCHANGED <<cls, hashOrder, self, call, sal, sfn>>

\* names looked up: a feature name and a name never registered
LookupNames == {"f1", "zz"}

\* extractor_of(feature)
Lookup ==
    \E f \in LookupNames :
        LET r == extractor_of(_extractors, f)
        IN  /\ last' = [op |-> "lookup", arg |-> f, raised |-> r.raised,
                        ret |-> r.ret]
            /\ UNCHANGED <<_extractors, cls, hashOrder, self, call, sal, sfn>>

\* cls(space): an instance of the class just defined
NewInstance ==
    /\ cls.kind = "class"
    /\ ~call.made
    /\ \E ns \in Spaces : self' = Extractor_init(cls, ns)
    /\ UNCHANGED <<_extractors, cls, last, hashOrder, call, sal, sfn>>

\* self.extract(data, dependencies); the instance is used for one call.
\* kwargs records the named arguments fit was called with
ExtractCall ==
    /\ self # NoInstance
    /\ ~call.made
    /\ \E data \in DataArrays, dependencies \in DepMaps,
          setup \in Hooks, fit \in FitOutcomes, teardown \in Hooks :
        LET r == extract(self, data, dependencies, setup, fit, teardown)
        IN  call' = [made |-> TRUE, data |-> data,
                     dependencies |-> dependencies, setup |-> setup,
                     fit |-> fit, teardown |-> teardown,
                     kwargs |-> IF Count(r.trace, "fit") > 0
                                THEN Kwargs(self, data, dependencies)
                                ELSE NoRet,
                     raised |-> r.raised, ret |-> r.ret, trace |-> r.trace]
    /\ UNCHANGED <<_extractors, cls, last, hashOrder, self, sal, sfn>>

Next == ClassStatement \/ Register \/ Lookup

Spec == Init /\ [][Next]_vars

NextExtract == ClassStatement \/ NewInstance \/ ExtractCall

SpecExtract == Init /\ [][NextExtract]_vars

(***************************************************************************)
(* Properties of the registry (under Spec)                                 *)
(***************************************************************************)
RegisterOk == last.op = "register" /\ last.raised = "none"

\* C1: right after register(V) succeeds, extractor_of returns V for every
\* feature name V declares: one entry per name, all holding V.
C1_RegisterThenLookup ==
    RegisterOk =>
        \A f \in last.arg._conf.features :
            extractor_of(_extractors, f) = [raised |-> "none", ret |-> last.arg]

\* a successful registration of a variant that declares two features and
\* a dependency, both features now held by it
C1_Witness ==
    /\ RegisterOk
    /\ Cardinality(last.arg._conf.features) = 2
    /\ \A f \in last.arg._conf.features : _extractors[f] = last.arg
    /\ last.arg._conf.dependencies # {}

\* C2: a register(V) call made while some dependency of V is no key of the
\* registry raises FeatureNotFound and leaves the registry as it was.
C2_FailedRegisterLeavesRegistry ==
    [][(/\ last'.op = "register"
        /\ last'.arg.kind = "class"
        /\ \E d \in last'.arg._conf.dependencies : d \notin DOMAIN _extractors)
       => (last'.raised = "FeatureNotFound" /\ _extractors' = _extractors)]_vars

\* a rejected registration of a variant with one dependency registered and
\* one missing, on a registry that holds entries
C2_Witness ==
    /\ last.op = "register"
    /\ last.raised = "FeatureNotFound"
    /\ \E d \in last.arg._conf.dependencies : d \in DOMAIN _extractors
    /\ \E d \in last.arg._conf.dependencies : d \notin DOMAIN _extractors
    /\ \E f \in last.arg._conf.features : f \in DOMAIN _extractors

\* C3 (as claimed): no later registration changes the owner of a feature
\* name that is already registered.
C3_OwnerNeverChanges ==
    [][\A f \in DOMAIN _extractors :
          f \in DOMAIN _extractors' /\ _extractors'[f] = _extractors[f]]_vars

DepsOf(reg, f) == reg[f]._conf.dependencies

RECURSIVE Reach(_, _, _)
\* the names reachable from the set S in at most n dependency steps
Reach(reg, S, n) ==
    IF n = 0 THEN S
    ELSE Reach(reg, S \cup UNION {DepsOf(reg, g) : g \in S \cap DOMAIN reg}, n - 1)

TransDeps(reg, f) == Reach(reg, DepsOf(reg, f), Cardinality(DOMAIN reg))

\* C4 (as claimed): in every reachable registry no feature transitively
\* depends on itself.
C4_Acyclic ==
    \A f \in DOMAIN _extractors : f \notin TransDeps(_extractors, f)

\* C5: every dependency of every variant held by the registry is a key of
\* the registry, and no step removes a key.
C5_DependencyClosure ==
    /\ [](\A f \in DOMAIN _extractors :
            DepsOf(_extractors, f) \subseteq DOMAIN _extractors)
    /\ [][DOMAIN _extractors \subseteq DOMAIN _extractors']_vars

\* after a rejected registration, a registry holding a variant that has
\* dependencies
C5_Witness ==
    /\ last.op = "register"
    /\ last.raised = "FeatureNotFound"
    /\ \E f \in DOMAIN _extractors : DepsOf(_extractors, f) # {}

(***************************************************************************)
(* Properties of definition-time validation (under Spec)                   *)
(***************************************************************************)
\* the rules of the extractor contract, stated on a class body
ViolatesRules(ns) ==
    \/ "data" \notin ns.attrs
    \/ ns.data = <<>>
    \/ \E i \in DOMAIN ns.data : ns.data[i] \notin Range(DATAS)
    \/ ~NoDup(ns.data)
    \/ "features" \notin ns.attrs
    \/ ns.features = <<>>
    \/ \E i \in DOMAIN ns.features :
          ns.features[i] \in NonStrings \/ ns.features[i] \in Range(DATAS)
    \/ ~NoDup(ns.features)
    \/ ~ns.fit
    \/ ("dependencies" \in ns.attrs /\ ns.dependencies \cap NonStrings # {})
    \/ ("params" \in ns.attrs /\
        \E i \in DOMAIN ns.params :
            ns.params[i][1] \in NonStrings \/ ns.params[i][1] \in Range(DATAS))

\* the same rules, stated on a descriptor
ConfSatisfiesRules(conf) ==
    /\ conf.data # {} /\ conf.data \subseteq Range(DATAS)
    /\ conf.features # {}
    /\ conf.features \cap (NonStrings \cup Range(DATAS)) = {}
    /\ conf.dependencies \cap NonStrings = {}
    /\ \A i \in DOMAIN conf.params :
          conf.params[i][1] \notin NonStrings \cup Range(DATAS)

\* C10: a class body that violates a rule of the contract is rejected with
\* an error and no class (no descriptor) is built; every variant held by
\* the registry satisfies the rules.
C10_ValidationRejects ==
    /\ (last.op = "class" /\ ViolatesRules(last.arg))
          => (last.raised # "none" /\ cls = NoClass)
    /\ \A f \in DOMAIN _extractors :
          /\ _extractors[f].kind = "class"
          /\ ConfSatisfiesRules(_extractors[f]._conf)

\* a class body whose only fault is a parameter named like a channel,
\* rejected
C10_Witness ==
    /\ last.op = "class"
    /\ last.raised = "DataReservedNameError"
    /\ DataErr(last.arg) = "none" /\ FeaturesErr(last.arg) = "none"
    /\ last.arg.fit
    /\ "params" \in last.arg.attrs
    /\ cls = NoClass

(***************************************************************************)
(* Properties of Extractor.extract (under SpecExtract)                     *)
(***************************************************************************)
\* the features attribute as the class body of type(self) wrote it
Declared == last.arg.features

\* extract gets past building the named arguments
ArgsBuilt ==
    /\ self.cls._conf.dependencies \subseteq DOMAIN call.dependencies
    /\ \A d \in self.cls._conf.data : DATA_IDXS[d] + 1 \in DOMAIN call.data

\* C6 (as claimed): when extract returns normally, the keys of the mapping
\* are exactly the declared features, whatever fit returned.
C6_KeysAreFeatures ==
    (call.made /\ call.raised = "none")
        => DOMAIN call.ret = self.cls._conf.features

\* C7 (as claimed): when fit returns v1..vn for the features declared in
\* the order f1..fn, extract returns fi -> vi for every i.
C7_Positional ==
    (/\ call.made /\ call.raised = "none"
     /\ call.fit.iter /\ Len(call.fit.vals) = Len(Declared))
        => \A i \in DOMAIN Declared : call.ret[Declared[i]] = call.fit.vals[i]

\* C8 (as claimed): every call of extract, returning or failing at any
\* step, invokes teardown exactly once.
C8_TeardownOnceAlways ==
    call.made => Count(call.trace, "teardown") = 1

\* C8 (amended): a call that gets past building the named arguments invokes
\* teardown exactly once, as its last step, whether setup, fit or teardown
\* fail or not; a call that fails while building them invokes no hook.
C8_TeardownOnceAfterArgs ==
    call.made =>
        IF ArgsBuilt
        THEN /\ Count(call.trace, "teardown") = 1
             /\ call.trace[Len(call.trace)] = "teardown"
        ELSE call.trace = <<>> /\ call.raised \in {"KeyError", "IndexError"}

\* a call whose computation routine fails and whose teardown ran once
C8_Witness ==
    /\ call.made
    /\ ArgsBuilt
    /\ call.fit.raised # "none"
    /\ call.trace = <<"setup", "fit", "teardown">>

\* C9 (as claimed): when fit fails with E the caller of extract observes E,
\* also when teardown fails; and fit is invoked at most once.
C9_NoMasking ==
    (call.made /\ Count(call.trace, "fit") > 0 /\ call.fit.raised # "none")
        => (call.raised = call.fit.raised /\ Count(call.trace, "fit") = 1)

(***************************************************************************)
(* EXTRACTORS (lines 273-1177): the classes the module defines.  body is   *)
(* what the class statement declares, fitargs the named arguments fit      *)
(* accepts besides self, defs the methods the class defines, fituses the   *)
(* attributes of self that fit reads.                                      *)
(***************************************************************************)
BuiltIns == {
    [name |-> "Amplitude",
     body |-> [attrs |-> {"data", "features"}, data |-> <<"magnitude">>,
               features |-> <<"Amplitude">>,
               fit |-> TRUE, dependencies |-> {}, params |-> <<>>],
     fitargs |-> {"magnitude"},
     defs |-> {"fit"},
     fituses |-> {}],
    [name |-> "RCS",
     body |-> [attrs |-> {"data", "features"}, data |-> <<"magnitude">>,
               features |-> <<"Rcs">>,
               fit |-> TRUE, dependencies |-> {}, params |-> <<>>],
     fitargs |-> {"magnitude"},
     defs |-> {"fit"},
     fituses |-> {}],
    [name |-> "StetsonK",
     body |-> [attrs |-> {"data", "features"}, data |-> <<"magnitude", "error">>,
               features |-> <<"StetsonK">>,
               fit |-> TRUE, dependencies |-> {}, params |-> <<>>],
     fitargs |-> {"magnitude", "error"},
     defs |-> {"fit"},
     fituses |-> {}],
    [name |-> "MeanVariance",
     body |-> [attrs |-> {"data", "features"}, data |-> <<"magnitude">>,
               features |-> <<"Meanvariance">>,
               fit |-> TRUE, dependencies |-> {}, params |-> <<>>],
     fitargs |-> {"magnitude"},
     defs |-> {"fit"},
     fituses |-> {}],
    [name |-> "AutocorLength",
     body |-> [attrs |-> {"data", "features", "params"}, data |-> <<"magnitude">>,
               features |-> <<"Autocor_length">>,
               fit |-> TRUE, dependencies |-> {}, params |-> <<<<"nlags", "100">>>>],
     fitargs |-> {"magnitude", "nlags"},
     defs |-> {"fit"},
     fituses |-> {}],
    [name |-> "SlottedA_length",
     body |-> [attrs |-> {"data", "features", "params"}, data |-> <<"magnitude", "time">>,
               features |-> <<"SlottedA_length">>,
               fit |-> TRUE, dependencies |-> {}, params |-> <<<<"T", "None">>>>],
     fitargs |-> {"magnitude", "time", "T"},
     defs |-> {"slotted_autocorrelation", "start_conditions", "fit"},
     fituses |-> {"start_conditions", "slotted_autocorrelation"}],
    [name |-> "StetsonKAC",
     body |-> [attrs |-> {"data", "features"}, data |-> <<"magnitude", "time", "error">>,
               features |-> <<"StetsonK_AC">>,
               fit |-> TRUE, dependencies |-> {}, params |-> <<>>],
     fitargs |-> {"magnitude", "time", "error"},
     defs |-> {"fit"},
     fituses |-> {"space"}],
    [name |-> "StetsonL",
     body |-> [attrs |-> {"data", "features"}, data |-> <<"aligned_magnitude", "aligned_magnitude2", "aligned_error", "aligned_error2">>,
               features |-> <<"StetsonL">>,
               fit |-> TRUE, dependencies |-> {}, params |-> <<>>],
     fitargs |-> {"aligned_magnitude", "aligned_magnitude2", "aligned_error",
                 "aligned_error2"},
     defs |-> {"fit"},
     fituses |-> {}],
    [name |-> "Con",
     body |-> [attrs |-> {"data", "features", "params"}, data |-> <<"magnitude">>,
               features |-> <<"Con">>,
               fit |-> TRUE, dependencies |-> {}, params |-> <<<<"consecutiveStar", "3">>>>],
     fitargs |-> {"magnitude", "consecutiveStar"},
     defs |-> {"fit"},
     fituses |-> {}],
    [name |-> "Color",
     body |-> [attrs |-> {"data", "features"}, data |-> <<"magnitude", "time", "magnitude2">>,
               features |-> <<"Color">>,
               fit |-> TRUE, dependencies |-> {}, params |-> <<>>],
     fitargs |-> {"magnitude", "magnitude2"},
     defs |-> {"fit"},
     fituses |-> {}],
    [name |-> "Beyond1Std",
     body |-> [attrs |-> {"data", "features"}, data |-> <<"magnitude", "error">>,
               features |-> <<"Beyond1Std">>,
               fit |-> TRUE, dependencies |-> {}, params |-> <<>>],
     fitargs |-> {"magnitude", "error"},
     defs |-> {"fit"},
     fituses |-> {}],
    [name |-> "SmallKurtosis",
     body |-> [attrs |-> {"data", "features"}, data |-> <<"magnitude">>,
               features |-> <<"SmallKurtosis">>,
               fit |-> TRUE, dependencies |-> {}, params |-> <<>>],
     fitargs |-> {"magnitude"},
     defs |-> {"fit"},
     fituses |-> {}],
    [name |-> "Std",
     body |-> [attrs |-> {"data", "features"}, data |-> <<"magnitude">>,
               features |-> <<"Std">>,
               fit |-> TRUE, dependencies |-> {}, params |-> <<>>],
     fitargs |-> {"magnitude"},
     defs |-> {"fit"},
     fituses |-> {}],
    [name |-> "Skew",
     body |-> [attrs |-> {"data", "features"}, data |-> <<"magnitude">>,
               features |-> <<"Skew">>,
               fit |-> TRUE, dependencies |-> {}, params |-> <<>>],
     fitargs |-> {"magnitude"},
     defs |-> {"fit"},
     fituses |-> {}],
    [name |-> "StetsonJ",
     body |-> [attrs |-> {"data", "features"}, data |-> <<"aligned_magnitude", "aligned_magnitude2", "aligned_error", "aligned_error2">>,
               features |-> <<"StetsonJ">>,
               fit |-> TRUE, dependencies |-> {}, params |-> <<>>],
     fitargs |-> {"aligned_magnitude", "aligned_magnitude2", "aligned_error",
                 "aligned_error2"},
     defs |-> {"fit"},
     fituses |-> {}],
    [name |-> "MaxSlope",
     body |-> [attrs |-> {"data", "features"}, data |-> <<"magnitude", "time">>,
               features |-> <<"MaxSlope">>,
               fit |-> TRUE, dependencies |-> {}, params |-> <<>>],
     fitargs |-> {"magnitude", "time"},
     defs |-> {"fit"},
     fituses |-> {}],
    [name |-> "MedianAbsDev",
     body |-> [attrs |-> {"data", "features"}, data |-> <<"magnitude">>,
               features |-> <<"MedianAbsDev">>,
               fit |-> TRUE, dependencies |-> {}, params |-> <<>>],
     fitargs |-> {"magnitude"},
     defs |-> {"fit"},
     fituses |-> {}],
    [name |-> "MedianBRP",
     body |-> [attrs |-> {"data", "features"}, data |-> <<"magnitude">>,
               features |-> <<"MedianBRP">>,
               fit |-> TRUE, dependencies |-> {}, params |-> <<>>],
     fitargs |-> {"magnitude"},
     defs |-> {"fit"},
     fituses |-> {}],
    [name |-> "PairSlopeTrend",
     body |-> [attrs |-> {"data", "features"}, data |-> <<"magnitude">>,
               features |-> <<"PairSlopeTrend">>,
               fit |-> TRUE, dependencies |-> {}, params |-> <<>>],
     fitargs |-> {"magnitude"},
     defs |-> {"fit"},
     fituses |-> {}],
    [name |-> "FluxPercentileRatioMid20",
     body |-> [attrs |-> {"data", "features"}, data |-> <<"magnitude">>,
               features |-> <<"FluxPercentileRatioMid20">>,
               fit |-> TRUE, dependencies |-> {}, params |-> <<>>],
     fitargs |-> {"magnitude"},
     defs |-> {"fit"},
     fituses |-> {}],
    [name |-> "FluxPercentileRatioMid35",
     body |-> [attrs |-> {"data", "features"}, data |-> <<"magnitude">>,
               features |-> <<"FluxPercentileRatioMid35">>,
               fit |-> TRUE, dependencies |-> {}, params |-> <<>>],
     fitargs |-> {"magnitude"},
     defs |-> {"fit"},
     fituses |-> {}],
    [name |-> "FluxPercentileRatioMid50",
     body |-> [attrs |-> {"data", "features"}, data |-> <<"magnitude">>,
               features |-> <<"FluxPercentileRatioMid50">>,
               fit |-> TRUE, dependencies |-> {}, params |-> <<>>],
     fitargs |-> {"magnitude"},
     defs |-> {"fit"},
     fituses |-> {}],
    [name |-> "FluxPercentileRatioMid65",
     body |-> [attrs |-> {"data", "features"}, data |-> <<"magnitude">>,
               features |-> <<"FluxPercentileRatioMid65">>,
               fit |-> TRUE, dependencies |-> {}, params |-> <<>>],
     fitargs |-> {"magnitude"},
     defs |-> {"fit"},
     fituses |-> {}],
    [name |-> "FluxPercentileRatioMid80",
     body |-> [attrs |-> {"data", "features"}, data |-> <<"magnitude">>,
               features |-> <<"FluxPercentileRatioMid80">>,
               fit |-> TRUE, dependencies |-> {}, params |-> <<>>],
     fitargs |-> {"magnitude"},
     defs |-> {"fit"},
     fituses |-> {}],
    [name |-> "PercentDifferenceFluxPercentile",
     body |-> [attrs |-> {"data", "features"}, data |-> <<"magnitude">>,
               features |-> <<"PercentDifferenceFluxPercentile">>,
               fit |-> TRUE, dependencies |-> {}, params |-> <<>>],
     fitargs |-> {"magnitude"},
     defs |-> {"fit"},
     fituses |-> {}],
    [name |-> "PercentAmplitude",
     body |-> [attrs |-> {"data", "features"}, data |-> <<"magnitude">>,
               features |-> <<"PercentAmplitude">>,
               fit |-> TRUE, dependencies |-> {}, params |-> <<>>],
     fitargs |-> {"magnitude"},
     defs |-> {"fit"},
     fituses |-> {}],
    [name |-> "LinearTrend",
     body |-> [attrs |-> {"data", "features"}, data |-> <<"magnitude", "time">>,
               features |-> <<"LinearTrend">>,
               fit |-> TRUE, dependencies |-> {}, params |-> <<>>],
     fitargs |-> {"magnitude", "time"},
     defs |-> {"fit"},
     fituses |-> {}],
    [name |-> "EtaColor",
     body |-> [attrs |-> {"data", "features"}, data |-> <<"aligned_magnitude", "aligned_time", "aligned_magnitude2">>,
               features |-> <<"Eta_color">>,
               fit |-> TRUE, dependencies |-> {}, params |-> <<>>],
     fitargs |-> {"aligned_magnitude", "aligned_time", "aligned_magnitude2"},
     defs |-> {"fit"},
     fituses |-> {}],
    [name |-> "Eta_e",
     body |-> [attrs |-> {"data", "features"}, data |-> <<"magnitude", "time">>,
               features |-> <<"Eta_e">>,
               fit |-> TRUE, dependencies |-> {}, params |-> <<>>],
     fitargs |-> {"magnitude", "time"},
     defs |-> {"fit"},
     fituses |-> {}],
    [name |-> "Mean",
     body |-> [attrs |-> {"data", "features"}, data |-> <<"magnitude">>,
               features |-> <<"Mean">>,
               fit |-> TRUE, dependencies |-> {}, params |-> <<>>],
     fitargs |-> {"magnitude"},
     defs |-> {"fit"},
     fituses |-> {}],
    [name |-> "Q31",
     body |-> [attrs |-> {"data", "features"}, data |-> <<"magnitude">>,
               features |-> <<"Q31">>,
               fit |-> TRUE, dependencies |-> {}, params |-> <<>>],
     fitargs |-> {"magnitude"},
     defs |-> {"fit"},
     fituses |-> {}],
    [name |-> "Q31Color",
     body |-> [attrs |-> {"data", "features"}, data |-> <<"aligned_magnitude", "aligned_magnitude2">>,
               features |-> <<"Q31_color">>,
               fit |-> TRUE, dependencies |-> {}, params |-> <<>>],
     fitargs |-> {"aligned_magnitude", "aligned_magnitude2"},
     defs |-> {"fit"},
     fituses |-> {}],
    [name |-> "AndersonDarling",
     body |-> [attrs |-> {"data", "features"}, data |-> <<"magnitude">>,
               features |-> <<"AndersonDarling">>,
               fit |-> TRUE, dependencies |-> {}, params |-> <<>>],
     fitargs |-> {"magnitude"},
     defs |-> {"fit"},
     fituses |-> {}],
    [name |-> "LombScargle",
     body |-> [attrs |-> {"data", "features", "params"}, data |-> <<"magnitude", "time">>,
               features |-> <<"PeriodLS", "Period_fit", "Psi_CS", "Psi_eta">>,
               fit |-> TRUE, dependencies |-> {}, params |-> <<<<"ofac", "6.0">>>>],
     fitargs |-> {"magnitude", "time", "ofac"},
     defs |-> {"_compute_ls", "_compute_cs", "_compute_eta", "fit"},
     fituses |-> {"_compute_ls", "_compute_cs", "_compute_eta"}],
    [name |-> "CAR",
     body |-> [attrs |-> {"data", "features"}, data |-> <<"magnitude", "time", "error">>,
               features |-> <<"CAR_sigma", "CAR_tau", "CAR_mean">>,
               fit |-> TRUE, dependencies |-> {}, params |-> <<>>],
     fitargs |-> {"magnitude", "time", "error"},
     defs |-> {"_CAR_Like", "_calculate_CAR", "fit"},
     fituses |-> {"_calculate_CAR"}],
    [name |-> "FourierComponents",
     body |-> [attrs |-> {"data", "features"}, data |-> <<"magnitude", "time">>,
               features |-> <<"Freq1_harmonics_amplitude_0",
                             "Freq1_harmonics_amplitude_1",
                             "Freq1_harmonics_amplitude_2",
                             "Freq1_harmonics_amplitude_3",
                             "Freq2_harmonics_amplitude_0",
                             "Freq2_harmonics_amplitude_1",
                             "Freq2_harmonics_amplitude_2",
                             "Freq2_harmonics_amplitude_3",
                             "Freq3_harmonics_amplitude_0",
                             "Freq3_harmonics_amplitude_1",
                             "Freq3_harmonics_amplitude_2",
                             "Freq3_harmonics_amplitude_3",
                             "Freq1_harmonics_rel_phase_0",
                             "Freq1_harmonics_rel_phase_1",
                             "Freq1_harmonics_rel_phase_2",
                             "Freq1_harmonics_rel_phase_3",
                             "Freq2_harmonics_rel_phase_0",
                             "Freq2_harmonics_rel_phase_1",
                             "Freq2_harmonics_rel_phase_2",
                             "Freq2_harmonics_rel_phase_3",
                             "Freq3_harmonics_rel_phase_0",
                             "Freq3_harmonics_rel_phase_1",
                             "Freq3_harmonics_rel_phase_2",
                             "Freq3_harmonics_rel_phase_3">>,
               fit |-> TRUE, dependencies |-> {}, params |-> <<>>],
     fitargs |-> {"magnitude", "time"},
     defs |-> {"_model", "_yfunc_maker", "_compoenents", "fit"},
     fituses |-> {"_components"}],
    [name |-> "Gskew",
     body |-> [attrs |-> {"data", "features"}, data |-> <<"magnitude">>,
               features |-> <<"Gskew">>,
               fit |-> TRUE, dependencies |-> {}, params |-> <<>>],
     fitargs |-> {"magnitude"},
     defs |-> {"fit"},
     fituses |-> {}],
    [name |-> "StructureFunctions",
     body |-> [attrs |-> {"data", "features"}, data |-> <<"magnitude", "time">>,
               features |-> <<"StructureFunction_index_21",
                             "StructureFunction_index_31",
                             "StructureFunction_index_32">>,
               fit |-> TRUE, dependencies |-> {}, params |-> <<>>],
     fitargs |-> {"magnitude", "time"},
     defs |-> {"fit"},
     fituses |-> {}]}

\* what every instance has besides the methods of its own class: the
\* attributes __init__ sets and the methods of the base class
InstanceAttrs == {"space", "name", "params", "setup", "fit", "teardown",
                  "extract", "_conf"}

\* the class object the class statement of b yields
BuiltinClass(b) == ExtractorMeta_new(b.body).cls

\* the class of BuiltIns with descriptor conf (feature names are unique)
BuiltinOf(conf) == CHOOSE b \in BuiltIns : Range(b.body.features) = conf.features

\* what the numerical body of fit does when it is reached
FitBodies == {"ok", "FitError"}

\* self.fit(**kwargs) of class b: the call fails when the names passed are
\* not the names accepted, the body fails when it reads an attribute the
\* instance lacks; otherwise one value per feature comes back, a scalar
\* when there is one feature
BuiltinFit(b, kwargs, body) ==
    LET n == Len(b.body.features)
        Fail(e) == [raised |-> e, iter |-> FALSE, scalar |-> 0, vals |-> <<>>]
    IN  IF DOMAIN kwargs # b.fitargs THEN Fail("TypeError")
        ELSE IF b.fituses \ (b.defs \cup InstanceAttrs) # {}
        THEN Fail("AttributeError")
        ELSE IF body # "ok" THEN Fail(body)
        ELSE IF n = 1
        THEN [raised |-> "none", iter |-> FALSE, scalar |-> 1, vals |-> <<>>]
        ELSE [raised |-> "none", iter |-> TRUE, scalar |-> 0,
              vals |-> [i \in 1..n |-> 1]]

\* cls(space) for one of the classes of the module
BuiltinInstance ==
    /\ self = NoInstance
    /\ \E b \in BuiltIns, ns \in Spaces :
          /\ ExtractorMeta_new(b.body).raised = "none"
          /\ self' = Extractor_init(BuiltinClass(b), ns)
    /\ UNCHANGED <<_extractors, cls, last, hashOrder, call, sal, sfn>>

\* self.extract(data, dependencies) on that instance
BuiltinExtract ==
    /\ self # NoInstance
    /\ ~call.made
    /\ \E data \in DataArrays, dependencies \in DepMaps,
          setup \in Hooks, body \in FitBodies, teardown \in Hooks :
          LET b == BuiltinOf(self.cls._conf)
              kwargs == Kwargs(self, data, dependencies)
              r == extract(self, data, dependencies, setup,
                           BuiltinFit(b, kwargs, body), teardown)
          IN  call' = [made |-> TRUE, data |-> data,
                       dependencies |-> dependencies, setup |-> setup,
                       body |-> body, teardown |-> teardown,
                       kwargs |-> IF r.trace = <<>> THEN <<>> ELSE kwargs,
                       raised |-> r.raised, ret |-> r.ret, trace |-> r.trace]
    /\ UNCHANGED <<_extractors, cls, last, hashOrder, self, sal, sfn>>

NextBuiltin == BuiltinInstance \/ BuiltinExtract
SpecBuiltin == Init /\ [][NextBuiltin]_vars

(***************************************************************************)
(* Further properties of validation, lookup and parameters                 *)
(***************************************************************************)
ParamNamesOf(conf) == {conf.params[i][1] : i \in DOMAIN conf.params}

FeaturesApart(conf) ==
    conf.features \cap (Range(DATAS) \cup ParamNamesOf(conf)) = {}

\* C11 (as claimed): no feature name of a variant that passed validation,
\* in hand or in the registry, is a channel name or one of the variant's
\* parameter names.
C11_FeaturesApart ==
    /\ cls.kind = "class" => FeaturesApart(cls._conf)
    /\ \A f \in DOMAIN _extractors : FeaturesApart(_extractors[f]._conf)

\* C12: the resolved parameters have exactly the declared names; each holds
\* the space's override when there is one, else the default; and fit is
\* called with exactly these values.
C12_ParamsResolved ==
    LET items == self.cls._conf.params
    IN  self # NoInstance =>
          /\ DOMAIN self.params = {items[i][1] : i \in DOMAIN items}
          /\ \A i \in DOMAIN items :
                self.params[items[i][1]] =
                    IF items[i][1] \in DOMAIN self.space
                    THEN self.space[items[i][1]] ELSE items[i][2]
          /\ (call.made /\ Count(call.trace, "fit") > 0) =>
                \A p \in DOMAIN self.params : call.kwargs[p] = self.params[p]

\* fit called by an instance whose declared parameter is overridden by a
\* space that also holds an undeclared name
C12_Witness ==
    /\ self # NoInstance
    /\ DOMAIN self.params = {"f1"}
    /\ DOMAIN self.space = {"f1", "zz"}
    /\ self.params["f1"] = "ovr"
    /\ call.made /\ Count(call.trace, "fit") > 0

\* C13 (as claimed): looking up a registered name returns its owner, looking
\* up any other name fails with FeatureNotFound; the registry is unchanged.
C13_LookupFeatureNotFound ==
    [][last'.op = "lookup" =>
        /\ _extractors' = _extractors
        /\ IF last'.arg \in DOMAIN _extractors
           THEN last'.raised = "none" /\ last'.ret = _extractors[last'.arg]
           ELSE last'.raised = "FeatureNotFound" /\ last'.ret = NoClass]_vars

\* C13 (amended): looking up a registered name returns its owner, looking
\* up any other name fails with KeyError and returns nothing; the registry
\* is unchanged.
C13_LookupKeyError ==
    [][last'.op = "lookup" =>
        /\ _extractors' = _extractors
        /\ IF last'.arg \in DOMAIN _extractors
           THEN last'.raised = "none" /\ last'.ret = _extractors[last'.arg]
           ELSE last'.raised = "KeyError" /\ last'.ret = NoClass]_vars

\* a failed lookup on a registry that holds entries
C13_Witness ==
    /\ last.op = "lookup"
    /\ last.raised = "KeyError"
    /\ _extractors # <<>>

(***************************************************************************)
(* Properties of the classes of the module                                 *)
(***************************************************************************)
\* the call got as far as fit, with hooks and numerical body that do not fail
WellFormedCall ==
    /\ call.made
    /\ Len(call.data) = Len(DATAS)
    /\ call.setup = "none" /\ call.teardown = "none" /\ call.body = "ok"

\* C14 (as claimed): an extraction by FourierComponents on a well-formed
\* light curve completes and returns a value for each of the 24 features.
C14_FourierCompletes ==
    (WellFormedCall /\ BuiltinOf(self.cls._conf).name = "FourierComponents") =>
        /\ call.raised = "none"
        /\ DOMAIN call.ret = self.cls._conf.features
        /\ Cardinality(DOMAIN call.ret) = 24

\* C19 (as claimed): for every class of the module the named arguments
\* extract builds are exactly those fit accepts, and no extraction fails
\* with the TypeError of a missing or unexpected named argument.
C19_ArgsMatchSignature ==
    (call.made /\ call.trace # <<>>) =>
        /\ DOMAIN call.kwargs = BuiltinOf(self.cls._conf).fitargs
        /\ call.raised # "TypeError"

(***************************************************************************)
(* SlottedA_length (lines 350-436).  Times, magnitudes and T are integers; *)
(* the centred magnitudes are kept multiplied by N and a mean is kept as   *)
(* the pair <<sum, count>>, so the ratios the routine compares are exact.  *)
(***************************************************************************)
MaxPts == 3
TimePoints == {0, 1, 2, 150, 450, 22500000}
MagValues == {0, 1, 2}
\* line 355, params = {"T": None}: 0 stands for None
NoneT == 0
TValues == {1, 2, 50000}

\* line 371: the value written over the lower triangle of the pairs
Sentinel == 10000000
\* line 413: K = 100
StartK == 100
\* line 424, np.exp(-1) = 0.36787944117...; 1001/2721 is the convergent just above
\* it, and no fraction with a denominator under 23225 lies between the two
ExpNum == 1001
ExpDen == 2721

Abs(x) == IF x < 0 THEN -x ELSE x

RECURSIVE SumSeq(_)
SumSeq(s) == IF s = <<>> THEN 0 ELSE Head(s) + SumSeq(Tail(s))

RECURSIVE SortedSeq(_)
SortedSeq(S) ==
    IF S = {} THEN <<>>
    ELSE LET m == CHOOSE x \in S : \A y \in S : x <= y
         IN  <<m>> \o SortedSeq(S \ {m})

\* np.sort of a sequence
RECURSIVE Sort(_)
Sort(s) ==
    IF s = <<>> THEN <<>>
    ELSE LET i == CHOOSE j \in DOMAIN s : \A l \in DOMAIN s : s[j] <= s[l]
         IN  <<s[i]>> \o Sort(SubSeq(s, 1, i - 1) \o SubSeq(s, i + 1, Len(s)))

\* np.trim_zeros(a, trim='b')
RECURSIVE TrimBack(_)
TrimBack(a) ==
    IF a # <<>> /\ a[Len(a)] = 0 THEN TrimBack(SubSeq(a, 1, Len(a) - 1))
    ELSE a

\* the light curves: time-ordered observations
LightCurves ==
    UNION {{[time |-> SortedSeq(S), magnitude |-> m] :
                m \in [1..Cardinality(S) -> MagValues]} :
           S \in {X \in SUBSET TimePoints :
                    Cardinality(X) >= 2 /\ Cardinality(X) <= MaxPts}}

\* lines 366-367: data - np.mean(data), times N
Centred(magnitude) ==
    [i \in DOMAIN magnitude |->
        Len(magnitude) * magnitude[i] - SumSeq(magnitude)]

\* line 373: floor(|d| / T + 0.5)
SlotOf(d, T) == (2 * Abs(d) + T) \div (2 * T)

\* lines 370-373: the slot of every index pair; the pairs on and below the
\* diagonal carry the sentinel instead of a time difference
ks(time, T) ==
    [p \in (DOMAIN time) \X (DOMAIN time) |->
        IF p[1] < p[2] THEN SlotOf(time[p[1]] - time[p[2]], T)
        ELSE SlotOf(Sentinel, T)]

\* np.where(ks == k)
idx(time, T, k) == {p \in DOMAIN ks(time, T) : ks(time, T)[p] = k}

\* sum(data[idx[0]] * data[idx[1]])
RECURSIVE SumProducts(_, _)
SumProducts(data, P) ==
    IF P = {} THEN 0
    ELSE LET p == CHOOSE q \in P : TRUE
         IN  data[p[1]] * data[p[2]] + SumProducts(data, P \ {p})

\* lines 376-378 and 386, 395: prod[k] as <<sum, count>>, for a slot that
\* holds pairs (k >= 1) and for slot 0
prod(data, time, T, k) ==
    LET P == idx(time, T, k)
        squares == SumProducts(data, {<<i, i>> : i \in DOMAIN data})
    IN  IF k = 0
        THEN <<squares + SumProducts(data, P), Cardinality(P) + Len(data)>>
        ELSE <<SumProducts(data, P), Cardinality(P)>>

\* value < np.exp(-1) for value = prod[k] / prod[0], given as the pair
\* <<prod[k], prod[0]>>; x / 0 is -inf for x < 0, inf or nan otherwise
BelowExp(value) ==
    LET a == value[1][1] * value[2][2]
        b == value[1][2] * value[2][1]
    IN  IF b > 0 THEN a * ExpDen < ExpNum * b
        ELSE IF b < 0 THEN a * ExpDen > ExpNum * b
        ELSE a < 0

\* lines 357-403.  The loops of lines 383 and 392 visit k upwards and act
\* on the slots that hold pairs; SAC is given on the slots listed in slots,
\* the only entries fit reads (the others are inf, or 0 when never written)
slotted_autocorrelation(data, time, T, K, second_round, K1) ==
    LET first == IF second_round THEN K1 ELSE 1
        held == SortedSeq({k \in Range(ks(time, T)) : first <= k /\ k < K})
        written == IF second_round /\ held # <<>> THEN held
                   ELSE <<0>> \o held
        slots == TrimBack(written)
    IN  [SAC |-> [k \in Range(slots) |->
                    <<prod(data, time, T, k), prod(data, time, T, 0)>>],
         slots |-> slots]

\* lines 405-418.  A missing T is taken from the sorted gaps, at 0-based
\* position int(N * 0.05) + 1, which must exist
start_conditions(magnitude, time, T) ==
    LET N == Len(time)
        deltaT == [i \in 1..(N - 1) |-> time[i + 1] - time[i]]
        at == (N * 5) \div 100 + 1
        T1 == IF T = NoneT THEN Sort(deltaT)[at + 1] ELSE T
        r == slotted_autocorrelation(Centred(magnitude), time, T1, StartK,
                                     FALSE, StartK)
    IN  IF T = NoneT /\ at + 1 > N - 1
        THEN [raised |-> "IndexError", T |-> T, K |-> StartK,
              slots |-> <<>>, SAC2 |-> <<>>]
        ELSE [raised |-> "none", T |-> T1, K |-> StartK, slots |-> r.slots,
              SAC2 |-> [i \in DOMAIN r.slots |-> r.SAC[r.slots[i]]]]

\* lines 423-424, 434-435: next((index for index, value in enumerate(SAC2)
\* if value < np.exp(-1)), None), 1-based, 0 for None
FirstBelow(SAC2) == FirstIdx(SAC2, BelowExp)

\* a faulty variant of NextK: the budget is not widened
NextK_Same(K) == K

\* line 427: K = K + K
NextK(K) == K + K

\* line 436: slots[k] * T.  With k an index this is one lag; with k None
\* the subscript adds an axis, and the result is the row of all lags
Returned(slots, k, T) ==
    IF k # 0 THEN [lag |-> TRUE, vals |-> <<slots[k] * T>>]
    ELSE [lag |-> FALSE, vals |-> [i \in DOMAIN slots |-> slots[i] * T]]

\* fit, lines 420-424: start_conditions and the first search; the routine
\* returns at once when the search succeeds.  examined lists the ranges
\* <<from, to>> of slots the rounds have gone through, to excluded
SalStart ==
    /\ sal.pc = "idle"
    /\ \E lc \in LightCurves, T \in TValues \cup {NoneT} :
          LET c == start_conditions(lc.magnitude, lc.time, T)
              k == FirstBelow(c.SAC2)
              loc == [magnitude |-> lc.magnitude, time |-> lc.time,
                      T |-> c.T, K |-> c.K, slots |-> c.slots, k |-> k,
                      examined |-> <<>>, raised |-> c.raised,
                      ret |-> <<>>, pc |-> "done"]
          IN  sal' =
                IF c.raised # "none" THEN loc
                ELSE IF k # 0
                THEN [loc EXCEPT !.examined = <<<<1, c.K>>>>,
                                 !.ret = Returned(c.slots, k, c.T)]
                ELSE [loc EXCEPT !.examined = <<<<1, c.K>>>>, !.pc = "loop"]
    /\ UNCHANGED <<_extractors, cls, last, hashOrder, self, call, sfn>>

\* one pass of the while loop, lines 426-435, and the return of line 436
\* when the pass ends the loop
SalLoop ==
    /\ sal.pc = "loop"
    /\ LET K == NextK(sal.K)
           span == sal.time[Len(sal.time)] - sal.time[1]
           r == slotted_autocorrelation(Centred(sal.magnitude), sal.time,
                                        sal.T, K, TRUE, K \div 2)
           SAC2 == [i \in DOMAIN r.slots |-> r.SAC[r.slots[i]]]
           k == FirstBelow(SAC2)
       IN  sal' =
             IF K > span \div sal.T    \* K > (max - min) / T: break
             THEN [sal EXCEPT !.K = K, !.pc = "done",
                              !.ret = Returned(sal.slots, sal.k, sal.T)]
             ELSE IF k # 0
             THEN [sal EXCEPT !.K = K, !.slots = r.slots, !.k = k,
                              !.examined = Append(@, <<K \div 2, K>>),
                              !.pc = "done",
                              !.ret = Returned(r.slots, k, sal.T)]
             ELSE [sal EXCEPT !.K = K, !.slots = r.slots, !.k = k,
                              !.examined = Append(@, <<K \div 2, K>>)]
    /\ UNCHANGED <<_extractors, cls, last, hashOrder, self, call, sfn>>

NextSlotted == SalStart \/ SalLoop
SpecSlotted == Init /\ [][NextSlotted]_vars

Span == sal.time[Len(sal.time)] - sal.time[1]

\* C15: the widening loop ends after finitely many doublings of K.  Every
\* pass of the loop is defined, and it either ends the routine (a crossing
\* was found, or K exceeds the span in slots) or leaves K doubled; and a
\* run still in the loop has T > 0 and a budget that started at 100 and, once
\* doubled, is within the span in slots, so only finitely many passes fit.
C15_BudgetGrows ==
    /\ [][sal.pc = "loop" =>
            \/ sal'.pc = "done" /\ (sal'.k # 0 \/ sal'.K > Span \div sal.T)
            \/ sal'.pc = "loop" /\ sal'.K = 2 * sal.K]_vars
    /\ [](sal.pc = "loop" =>
            /\ sal.T > 0
            /\ sal.K = StartK \/ (sal.K > StartK /\ sal.K <= Span \div sal.T))

\* a run that ended after at least two doublings of K
C15_Witness == sal.pc = "done" /\ sal.raised = "none" /\ sal.K >= 4 * StartK

\* C16 (as claimed): when the loop is left because K exceeds the span with
\* no crossing found, fit returns no lag and no set of lags.
C16_NoCrossingNoLag ==
    (sal.pc = "done" /\ sal.raised = "none" /\ sal.k = 0) => sal.ret.vals = <<>>

\* the pairs of observations i < j whose time difference falls in slot k
RealPairs(k) ==
    {p \in (DOMAIN sal.time) \X (DOMAIN sal.time) :
        p[1] < p[2] /\ SlotOf(sal.time[p[1]] - sal.time[p[2]], sal.T) = k}

\* the normalised autocorrelation of slot k over those pairs is below 1/e
RealBelow(k) ==
    LET data == Centred(sal.magnitude)
        squares == SumProducts(data, {<<i, i>> : i \in DOMAIN data})
    IN  BelowExp(<< <<SumProducts(data, RealPairs(k)),
                      Cardinality(RealPairs(k))>>,
                    <<squares + SumProducts(data, RealPairs(0)),
                      Cardinality(RealPairs(0)) + Len(data)>> >>)

Crossings ==
    {k \in {SlotOf(sal.time[i] - sal.time[j], sal.T) :
                i, j \in DOMAIN sal.time} :
        k >= 1 /\ RealPairs(k) # {} /\ RealBelow(k)}

\* C17 (as claimed): when a crossing is found the lag returned is T times
\* the smallest slot k >= 1 that holds a pair and whose normalised
\* autocorrelation is below 1/e; the first round goes through the slots
\* 1..K-1 and each widening round with budget K through K/2..K-1.
C17_SmallestCrossing ==
    (sal.pc = "done" /\ sal.raised = "none" /\ sal.k # 0) =>
        /\ Crossings # {}
        /\ sal.ret = [lag |-> TRUE,
                      vals |-> <<sal.T * (CHOOSE k \in Crossings :
                                    \A l \in Crossings : k <= l)>>]
        /\ sal.examined[1] = <<1, StartK>>
        /\ \A i \in 2..Len(sal.examined) :
              /\ sal.examined[i][1] = sal.examined[i - 1][2]
              /\ sal.examined[i][2] = 2 * sal.examined[i][1]
        /\ sal.examined[Len(sal.examined)][2] = sal.K

(***************************************************************************)
(* StructureFunctions (lines 1145-1177).  A mean is kept as the pair       *)
(* <<sum, count>>, and 0.0 as <<0, 1>>.                                    *)
(***************************************************************************)
\* line 1153: Nsf, Np = 100, 100
Nsf == 100
Np == 100

MaxPeriod == 3
StepPoints == {1, 50, 99}

\* the magnitudes interpolated at the Np evenly spaced times (lines
\* 1155-1158): a repeated pattern, or one level up to a point and another
\* after it
InterpolatedMags ==
    {[i \in 1..Np |-> p[((i - 1) % Len(p)) + 1]] :
        p \in UNION {[1..n -> MagValues] : n \in 1..MaxPeriod}} \cup
    {[i \in 1..Np |-> IF i <= h THEN ab[1] ELSE ab[2]] :
        h \in StepPoints, ab \in MagValues \X MagValues}

Zero == <<0, 1>>

RECURSIVE SumFirst(_, _)    \* f[1] + ... + f[n]
SumFirst(f, n) == IF n = 0 THEN 0 ELSE f[n] + SumFirst(f, n - 1)

RECURSIVE Power(_, _)
Power(x, n) == IF n = 0 THEN 1 ELSE x * Power(x, n - 1)

\* lines 1161-1168: np.mean(np.power(np.abs(mag_int[0:Np-tau] -
\* mag_int[tau:Np]), p))
StructureFunction(mag_int, tau, p) ==
    <<SumFirst([i \in 1..(Np - tau) |->
                    Power(Abs(mag_int[i] - mag_int[i + tau]), p)], Np - tau),
      Np - tau>>

\* lines 1154 and 1160-1168: np.zeros(Nsf), filled for tau = 1..Nsf-1
sf(mag_int, p) ==
    [t \in 1..Nsf |->
        IF t <= Nsf - 1 THEN StructureFunction(mag_int, t, p) ELSE Zero]

\* np.trim_zeros(a): the zeros at the front and at the back are removed
trim_zeros(a) ==
    LET NonZero == {i \in DOMAIN a : a[i][1] # 0}
        first == CHOOSE i \in NonZero : \A j \in NonZero : i <= j
        last1 == CHOOSE i \in NonZero : \A j \in NonZero : j <= i
    IN  IF NonZero = {} THEN <<>> ELSE SubSeq(a, first, last1)

\* fit up to line 1168: the three structure functions
SfStart ==
    /\ sfn.pc = "idle"
    /\ \E mag_int \in InterpolatedMags :
          sfn' = [pc |-> "filled", mag_int |-> mag_int,
                  sf1 |-> sf(mag_int, 1), sf2 |-> sf(mag_int, 2),
                  sf3 |-> sf(mag_int, 3)]
    /\ UNCHANGED <<_extractors, cls, last, hashOrder, self, call, sal>>

\* lines 1169-1177: logged holds the three arrays handed to np.log10.  The
\* fit of an empty array raises TypeError; with the logarithm of a zero
\* among the values, polyfit raises or returns nan, depending on the
\* linear-algebra build
SfLog ==
    /\ sfn.pc = "filled"
    /\ LET logged == <<trim_zeros(sfn.sf1), trim_zeros(sfn.sf2),
                       trim_zeros(sfn.sf3)>>
           zeros == \E n \in 1..3 : \E i \in DOMAIN logged[n] :
                        logged[n][i][1] = 0
       IN  \E outcome \in {"LinAlgError", "nan"} :
              sfn' = [pc |-> "done", mag_int |-> sfn.mag_int,
                      sf1 |-> sfn.sf1, sf2 |-> sfn.sf2, sf3 |-> sfn.sf3,
                      logged |-> logged,
                      raised |-> IF logged[1] = <<>> THEN "TypeError"
                                 ELSE IF zeros /\ outcome # "nan"
                                 THEN outcome ELSE "none",
                      ret |-> IF logged[1] = <<>> THEN "none"
                              ELSE IF zeros THEN outcome ELSE "slopes"]
    /\ UNCHANGED <<_extractors, cls, last, hashOrder, self, call, sal>>

NextStructure == SfStart \/ SfLog
SpecStructure == Init /\ [][NextStructure]_vars

\* C18 (as claimed): no structure-function value that is zero is handed to
\* the logarithm, wherever in the array it lies.
C18_NoZeroLogged ==
    sfn.pc = "done" =>
        \A n \in 1..3 : \A i \in DOMAIN sfn.logged[n] :
            sfn.logged[n][i][1] # 0

====
